---- MODULE Spec2Model ----
(***************************************************************************)
(* Model of package validate (src/validate.go): the ValidationErrors       *)
(* aggregate, its construction from validator.ValidationErrors, the three  *)
(* custom field validators and the Struct entry point.                     *)
(*                                                                         *)
(* A Go string is a sequence of one-character strings; a Go map is a       *)
(* record [nil, m] whose m is a function on the keys present (a nil map    *)
(* has nil = TRUE and reads as empty).                                     *)
(***************************************************************************)
EXTENDS Integers, Sequences, FiniteSets, TLC

VARIABLES
    e,          \* the ValidationErrors value the caller holds
    op,         \* the last call on the aggregate and its arguments
    out,        \* what that call returned
    panicked,   \* TRUE once a call ended in a run-time panic
    registry,   \* validate: rule name -> validation function
    initDone,   \* package init() has run
    pc,         \* per Struct call: its position
    inst,       \* per Struct call: the instance i it was given
    errs,       \* per Struct call: what validate.Struct(i) returned
    todo,       \* per Struct call: keys of verrs the range loop has not visited
    iter,       \* per Struct call: keys of verrs in the order the loop visited
    heap,       \* allocated ValidationErrors values, by address
    ret,        \* per Struct call: the returned error (0 is nil, else an address)
    field,      \* the string handed to Phone
    matched     \* whether Phone has returned, and what

aggVars    == <<e, op, out, panicked>>
structVars == <<registry, initDone, pc, inst, errs, todo, iter, heap, ret>>
phoneVars  == <<field, matched>>
vars       == <<e, op, out, panicked, registry, initDone, pc, inst, errs, todo,
                iter, heap, ret, field, matched>>

----------------------------------------------------------------------------
(* Bounds *)

MaxFail    == 2   \* entries of a validator.ValidationErrors handed to NewValidationErrors
MaxReasons == 4   \* total reasons an aggregate holds before AddError stops being called
NumCalls   == 2   \* concurrent Struct calls

----------------------------------------------------------------------------
(* strings *)

RECURSIVE Index(_, _, _)
\* strings.Index from position i: first j >= i with s[j..] starting with sep, else 0
Index(s, sep, i) ==
    IF i + Len(sep) - 1 > Len(s) THEN 0
    ELSE IF SubSeq(s, i, i + Len(sep) - 1) = sep THEN i
    ELSE Index(s, sep, i + 1)

RECURSIVE Split(_, _)
\* strings.Split(s, sep) for a non-empty sep
Split(s, sep) ==
    LET j == Index(s, sep, 1) IN
    IF j = 0 THEN <<s>>
    ELSE <<SubSeq(s, 1, j - 1)>> \o Split(SubSeq(s, j + Len(sep), Len(s)), sep)

RECURSIVE Join(_, _)
\* strings.Join(elems, sep)
Join(elems, sep) ==
    IF Len(elems) = 0 THEN <<>>
    ELSE IF Len(elems) = 1 THEN elems[1]
    ELSE elems[1] \o sep \o Join(Tail(elems), sep)

\* the sequences that list every element of S exactly once
Orders(S) ==
    { s \in [1..Cardinality(S) -> S] : \A x \in S : \E i \in DOMAIN s : s[i] = x }

----------------------------------------------------------------------------
(* Go maps *)

NilMap   == [nil |-> TRUE,  m |-> <<>>]
MakeMap  == [nil |-> FALSE, m |-> <<>>]
Keys(mp) == DOMAIN mp.m
Has(mp, k) == k \in DOMAIN mp.m

\* mp[k] = v on an allocated map
MapSet(mp, k, v) ==
    [nil |-> FALSE,
     m   |-> [x \in (DOMAIN mp.m) \cup {k} |-> IF x = k THEN v ELSE mp.m[x]]]

----------------------------------------------------------------------------
(* ValidationErrors *)

Dot      == <<".">>
CommaSp  == <<",", " ">>
ErrPrefix ==
    <<"V", "a", "l", "i", "d", "a", "t", "i", "o", "n", " ", "e", "r", "r", "o", "r", " ", "o", "n", " ", "f", "i", "e", "l", "d", "s", ":", " ">>

\* var e ValidationErrors: the map was never allocated
ZeroValidationErrors == [errors |-> NilMap]

\* len(e.errors)
ErrorsLen(ve) == Cardinality(Keys(ve.errors))

HasErrors(ve) == ErrorsLen(ve) > 0

\* the sum of len(e.errors[k]) over the keys (bounds the model only)
RECURSIVE SumLens(_, _)
SumLens(mp, ks) ==
    IF ks = {} THEN 0
    ELSE LET k == CHOOSE x \in ks : TRUE IN Len(mp.m[k]) + SumLens(mp, ks \ {k})
TotalReasons(ve) == SumLens(ve.errors, Keys(ve.errors))

\* AddError with the new list left empty for an absent field
AddErrorEmptyList(ve, fld, err) ==
    IF Has(ve.errors, fld)
    THEN [ok |-> TRUE,
          e  |-> [errors |-> MapSet(ve.errors, fld, Append(ve.errors.m[fld], err))]]
    ELSE IF ve.errors.nil
    THEN [ok |-> FALSE, e |-> ve]
    ELSE [ok |-> TRUE, e |-> [errors |-> MapSet(ve.errors, fld, <<>>)]]

\* e.AddError(field, err): [ok, e]; ok = FALSE is the panic "assignment to entry
\* in nil map", which leaves e as it was
AddError(ve, fld, err) ==
    IF Has(ve.errors, fld)
    THEN [ok |-> TRUE,
          e  |-> [errors |-> MapSet(ve.errors, fld, Append(ve.errors.m[fld], err))]]
    ELSE IF ve.errors.nil
    THEN [ok |-> FALSE, e |-> ve]
    ELSE [ok |-> TRUE, e |-> [errors |-> MapSet(ve.errors, fld, <<err>>)]]

\* Error with the last key visited left out of the list
ErrorDropsLast(ve, keys) ==
    IF HasErrors(ve)
    THEN ErrPrefix \o Join(SubSeq(keys, 1, Len(keys) - 1), CommaSp)
    ELSE <<>>

\* e.Error(), the range over e.errors visiting the keys in the order keys
Error(ve, keys) ==
    IF HasErrors(ve) THEN ErrPrefix \o Join(keys, CommaSp) ELSE <<>>

\* only the last segment kept
TrimNamespaceLastOnly(ns) == Split(ns, Dot)[Len(Split(ns, Dot))]

\* the namespace kept whole: [0:] for [1:]
TrimNamespaceKeepsRoot(ns) == Join(Split(ns, Dot), Dot)

\* strings.Join(strings.Split(err.NameNamespace, ".")[1:], ".")
TrimNamespace(ns) == Join(Tail(Split(ns, Dot)), Dot)

\* one iteration of the loop of NewValidationErrors
MergeError(ve, ferr) ==
    [errors |-> MapSet(ve.errors, TrimNamespace(ferr.NameNamespace), <<ferr.Tag>>)]

\* verr := ValidationErrors{errors: make(map[string][]string)}
EmptyValidationErrors == [errors |-> MakeMap]

RECURSIVE MergeAll(_, _, _)
MergeAll(ve, verrs, order) ==
    IF Len(order) = 0 THEN ve
    ELSE MergeAll(MergeError(ve, verrs.m[Head(order)]), verrs, Tail(order))

\* NewValidationErrors(verrs), the range over verrs visiting its keys in the
\* order given (the order of a Go map range is not specified)
NewValidationErrors(verrs, order) ==
    IF ~verrs.nil THEN MergeAll(EmptyValidationErrors, verrs, order)
    ELSE EmptyValidationErrors

----------------------------------------------------------------------------
(* inputs *)

U_a   == <<"U", ".", "a">>
U_b   == <<"U", ".", "b">>
U_a_b == <<"U", ".", "a", ".", "b">>
V_a   == <<"V", ".", "a">>
Bare  == <<"a">>

Namespaces == {U_a, U_b, U_a_b, V_a, Bare}
Tags       == {"required", "phone"}
FieldErrors == [NameNamespace : Namespaces, Tag : Tags]

\* a validator.ValidationErrors: nil, or a map of up to MaxFail entries (the
\* keys 1..MaxFail stand for the struct-field namespaces that key the map)
VerrsOver(FE) ==
    {NilMap} \cup
    { [nil |-> FALSE, m |-> f] :
        f \in UNION { [K -> FE] : K \in SUBSET (1..MaxFail) } }

FieldNames == {<<"a">>, <<"b">>, <<"a", ".", "b">>, <<>>, <<"x">>}

----------------------------------------------------------------------------
(* calls on one aggregate *)

StructIdle ==
    /\ registry = <<>> /\ initDone = FALSE
    /\ pc = <<>> /\ inst = <<>> /\ errs = <<>> /\ todo = <<>> /\ iter = <<>>
    /\ heap = <<>> /\ ret = <<>>
PhoneIdle == field = <<>> /\ matched = [done |-> FALSE, ok |-> FALSE]

\* the caller's variable before anything is assigned to it: var e ValidationErrors
Init ==
    /\ e = ZeroValidationErrors
    /\ op = [name |-> "var"]
    /\ out = TRUE
    /\ panicked = FALSE
    /\ StructIdle /\ PhoneIdle

\* e = *NewValidationErrors(verrs), once, on the fresh variable
NewValidationErrorsCall ==
    /\ ~panicked
    /\ op.name = "var"
    /\ \E v \in VerrsOver(FieldErrors) : \E o \in Orders(Keys(v)) :
         /\ e' = NewValidationErrors(v, o)
         /\ op' = [name |-> "NewValidationErrors", verrs |-> v, order |-> o]
    /\ out' = TRUE
    /\ UNCHANGED <<panicked, structVars, phoneVars>>

AddErrorCall ==
    /\ ~panicked
    /\ TotalReasons(e) < MaxReasons
    /\ \E f \in FieldNames, r \in Tags :
         LET res == AddError(e, f, r) IN
         /\ e' = res.e
         /\ panicked' = ~res.ok
         /\ op' = [name |-> "AddError", field |-> f, err |-> r]
    /\ out' = TRUE
    /\ UNCHANGED <<structVars, phoneVars>>

HasErrorsCall ==
    /\ ~panicked
    /\ op' = [name |-> "HasErrors"]
    /\ out' = HasErrors(e)
    /\ UNCHANGED <<e, panicked, structVars, phoneVars>>

LenCall ==
    /\ ~panicked
    /\ op' = [name |-> "Len"]
    /\ out' = ErrorsLen(e)
    /\ UNCHANGED <<e, panicked, structVars, phoneVars>>

ErrorCall ==
    /\ ~panicked
    /\ \E o \in Orders(Keys(e.errors)) :
         /\ op' = [name |-> "Error", order |-> o]
         /\ out' = Error(e, o)
    /\ UNCHANGED <<e, panicked, structVars, phoneVars>>

Next ==
    \/ NewValidationErrorsCall
    \/ AddErrorCall
    \/ HasErrorsCall
    \/ LenCall
    \/ ErrorCall

Spec == Init /\ [][Next]_vars

----------------------------------------------------------------------------
(* claims about one aggregate *)

\* the path after its first "." (nothing, when it has no ".")
AfterFirstDot(ns) ==
    LET j == Index(ns, Dot, 1) IN
    IF j = 0 THEN <<>> ELSE SubSeq(ns, j + 1, Len(ns))

Failures(v) == { v.m[k] : k \in Keys(v) }

\* C9: right after NewValidationErrors(verrs) the aggregate's map is allocated,
\* its keys are exactly the failures' paths without their first segment, each
\* key holds exactly one reason, the tag of a failure with that path; for a nil
\* verrs the aggregate is empty, Len() = 0 and HasErrors() = false.
C9_NewValidationErrorsKeys ==
    op.name = "NewValidationErrors" =>
        /\ ~e.errors.nil
        /\ Keys(e.errors) = { AfterFirstDot(f.NameNamespace) : f \in Failures(op.verrs) }
        /\ \A k \in Keys(e.errors) :
              /\ Len(e.errors.m[k]) = 1
              /\ \E f \in Failures(op.verrs) :
                    /\ AfterFirstDot(f.NameNamespace) = k
                    /\ e.errors.m[k][1] = f.Tag
        /\ op.verrs.nil => (ErrorsLen(e) = 0 /\ ~HasErrors(e))

\* two failures, one of them nested, built into two keys
C9_Witness ==
    /\ op.name = "NewValidationErrors"
    /\ Cardinality(Keys(op.verrs)) = 2
    /\ Keys(e.errors) = {<<"a">>, <<"a", ".", "b">>}

\* C3: right after NewValidationErrors(verrs) every failure's tag is among the
\* reasons of its path.
C3_ReasonsAccumulate ==
    op.name = "NewValidationErrors" =>
        \A f \in Failures(op.verrs) :
            \E i \in DOMAIN e.errors.m[AfterFirstDot(f.NameNamespace)] :
                e.errors.m[AfterFirstDot(f.NameNamespace)][i] = f.Tag

\* C4: every AddError(field, reason) completes, appends reason to a present
\* field's list, creates <<reason>> for an absent one, and leaves the other
\* fields alone.
C4_AddErrorNeverFails ==
    [][ op'.name = "AddError" =>
          /\ ~panicked'
          /\ Keys(e'.errors) = Keys(e.errors) \cup {op'.field}
          /\ e'.errors.m[op'.field] =
                (IF Has(e.errors, op'.field)
                 THEN Append(e.errors.m[op'.field], op'.err)
                 ELSE <<op'.err>>)
          /\ \A k \in Keys(e.errors) \ {op'.field} : e'.errors.m[k] = e.errors.m[k]
      ]_vars

\* C8: Error() is "" on an aggregate without keys, and otherwise the prefix
\* followed by the keys, each exactly once, separated by ", ".
C8_ErrorListsEveryKeyOnce ==
    op.name = "Error" =>
        IF Keys(e.errors) = {} THEN out = <<>>
        ELSE /\ Len(out) >= Len(ErrPrefix)
             /\ SubSeq(out, 1, Len(ErrPrefix)) = ErrPrefix
             /\ LET parts == Split(SubSeq(out, Len(ErrPrefix) + 1, Len(out)), CommaSp) IN
                /\ Len(parts) = Cardinality(Keys(e.errors))
                /\ { parts[i] : i \in DOMAIN parts } = Keys(e.errors)

C8_Witness ==
    /\ op.name = "Error"
    /\ ErrorsLen(e) = 3
    /\ <<>> \in Keys(e.errors)

ReasonsNonEmpty(ve) == \A k \in Keys(ve.errors) : Len(ve.errors.m[k]) >= 1

\* C10: every key of the aggregate holds at least one reason, HasErrors() is
\* true exactly when some field holds a reason and exactly when Len() > 0, and
\* an AddError on an allocated aggregate adds one to Len() for an absent field
\* and nothing for a present one.
C10_AggregateInvariant ==
    /\ [](/\ ReasonsNonEmpty(e)
          /\ HasErrors(e) <=> (\E k \in Keys(e.errors) : Len(e.errors.m[k]) >= 1)
          /\ op.name = "HasErrors" => (out <=> ErrorsLen(e) > 0)
          /\ op.name = "Len" => out = Cardinality(Keys(e.errors)))
    /\ [][ (op'.name = "AddError" /\ ~e.errors.nil) =>
              ErrorsLen(e') =
                 ErrorsLen(e) + (IF Has(e.errors, op'.field) THEN 0 ELSE 1) ]_vars

\* AddError has acted on a present field and on an absent one
C10_Witness ==
    /\ op.name = "AddError"
    /\ ~panicked
    /\ \E k \in Keys(e.errors) : Len(e.errors.m[k]) >= 2
    /\ <<"x">> \in Keys(e.errors)

----------------------------------------------------------------------------
(* package init and concurrent Struct calls *)

Calls == 1..NumCalls

\* validator.New(config): the rules the validator ships with
BakedIn == [required |-> "builtin"]

\* validate.RegisterValidation(key, fn)
RegisterValidation(reg, key, fn) ==
    [k \in (DOMAIN reg) \cup {key} |-> IF k = key THEN fn ELSE reg[k]]

\* func init()
PkgInit ==
    /\ ~initDone
    /\ registry' = RegisterValidation(
                     RegisterValidation(
                       RegisterValidation(BakedIn, "phone", "Phone"),
                       "timezone", "Timezone"),
                     "coordinates", "Coordinates")
    /\ initDone' = TRUE
    /\ UNCHANGED <<pc, inst, errs, todo, iter, heap, ret, aggVars, phoneVars>>

\* An instance handed to Struct is given by the failures its fields have: a map
\* from the failing field's struct namespace (1, 2, ...) to its FieldError.
\* The shapes are: no failure; one; two fields; two fields that carry the same
\* json name; a nested field and a top-level one.
Instance(fs) == [nil |-> FALSE, m |-> fs]
FE(ns, tag) == [NameNamespace |-> ns, Tag |-> tag]
Instances ==
    { Instance(<<>>),
      Instance(<<FE(U_a, "required")>>),
      Instance(<<FE(U_a, "required"), FE(U_b, "phone")>>),
      Instance(<<FE(U_a, "required"), FE(U_a, "phone")>>),
      Instance(<<FE(U_a_b, "phone"), FE(U_b, "required")>>) }

\* validate.Struct(i) of the validator: nil when no field fails, else the map
\* of the failures
validateStruct(i) == IF Keys(i) = {} THEN NilMap ELSE i

\* errs != nil, with the nil test forgotten
ErrsNotNilAlways(v) == TRUE

\* errs != nil
ErrsNotNil(v) == ~v.nil

\* every call writes the one package-level aggregate
VerrAddrShared(p) == 1

\* the address of the verr that call p's NewValidationErrors allocates
VerrAddr(p) == p

HeapSet(h, a, v) == [x \in (DOMAIN h) \cup {a} |-> IF x = a THEN v ELSE h[x]]

StructInit ==
    /\ registry = <<>>
    /\ initDone = FALSE
    /\ pc = [p \in Calls |-> "idle"]
    /\ inst = [p \in Calls |-> Instance(<<>>)]
    /\ errs = [p \in Calls |-> NilMap]
    /\ todo = [p \in Calls |-> {}]
    /\ iter = [p \in Calls |-> <<>>]
    /\ heap = <<>>
    /\ ret = [p \in Calls |-> 0]
    /\ e = ZeroValidationErrors /\ op = [name |-> "var"] /\ out = TRUE
    /\ panicked = FALSE
    /\ PhoneIdle

\* errs := validate.Struct(i); the program's calls start after init() returned
StructCall(p) ==
    /\ initDone
    /\ pc[p] = "idle"
    /\ \E i \in Instances :
         /\ \A k \in Keys(i) : i.m[k].Tag \in DOMAIN registry
         /\ inst' = [inst EXCEPT ![p] = i]
         /\ errs' = [errs EXCEPT ![p] = validateStruct(i)]
    /\ pc' = [pc EXCEPT ![p] = "check"]
    /\ UNCHANGED <<registry, initDone, todo, iter, heap, ret, aggVars, phoneVars>>

\* if errs != nil: enter NewValidationErrors and allocate verr; else return nil
StructCheck(p) ==
    /\ pc[p] = "check"
    /\ IF ErrsNotNil(errs[p])
       THEN /\ heap' = HeapSet(heap, VerrAddr(p), EmptyValidationErrors)
            /\ todo' = [todo EXCEPT ![p] = Keys(errs[p])]
            /\ pc' = [pc EXCEPT ![p] = "range"]
            /\ UNCHANGED ret
       ELSE /\ ret' = [ret EXCEPT ![p] = 0]
            /\ pc' = [pc EXCEPT ![p] = "done"]
            /\ UNCHANGED <<heap, todo>>
    /\ UNCHANGED <<registry, initDone, inst, errs, iter, aggVars, phoneVars>>

\* one iteration of for _, err := range verrs
StructRange(p) ==
    /\ pc[p] = "range"
    /\ \E k \in todo[p] :
         /\ heap' = HeapSet(heap, VerrAddr(p),
                            MergeError(heap[VerrAddr(p)], errs[p].m[k]))
         /\ todo' = [todo EXCEPT ![p] = @ \ {k}]
         /\ iter' = [iter EXCEPT ![p] = Append(@, k)]
    /\ UNCHANGED <<registry, initDone, pc, inst, errs, ret, aggVars, phoneVars>>

\* return &verr
StructReturn(p) ==
    /\ pc[p] = "range"
    /\ todo[p] = {}
    /\ ret' = [ret EXCEPT ![p] = VerrAddr(p)]
    /\ pc' = [pc EXCEPT ![p] = "done"]
    /\ UNCHANGED <<registry, initDone, inst, errs, todo, iter, heap, aggVars, phoneVars>>

StructNext ==
    \/ PkgInit
    \/ \E p \in Calls : StructCall(p)
    \/ \E p \in Calls : StructCheck(p)
    \/ \E p \in Calls : StructRange(p)
    \/ \E p \in Calls : StructReturn(p)

SpecStruct == StructInit /\ [][StructNext]_vars

----------------------------------------------------------------------------
(* claims about Struct *)

\* the error a finished call returned: nil, or the aggregate its pointer refers to
Returned(p) ==
    IF ret[p] = 0 THEN [nil |-> TRUE, val |-> ZeroValidationErrors]
    ELSE [nil |-> FALSE, val |-> heap[ret[p]]]

\* C1: a finished call returned nil exactly when its instance has no failure;
\* otherwise it returned a pointer to an allocated aggregate whose keys are the
\* failures' paths and whose reasons are tags of failures of that path.
C1_NilIffNoViolation ==
    \A p \in Calls : pc[p] = "done" =>
        /\ ret[p] = 0 <=> Failures(inst[p]) = {}
        /\ ret[p] # 0 =>
              /\ ret[p] \in DOMAIN heap
              /\ ~heap[ret[p]].errors.nil
              /\ Keys(heap[ret[p]].errors) =
                    { AfterFirstDot(f.NameNamespace) : f \in Failures(inst[p]) }
              /\ \A k \in Keys(heap[ret[p]].errors) :
                    \A i \in DOMAIN heap[ret[p]].errors.m[k] :
                       \E f \in Failures(inst[p]) :
                          /\ AfterFirstDot(f.NameNamespace) = k
                          /\ f.Tag = heap[ret[p]].errors.m[k][i]

\* one call returned nil and another an aggregate
C1_Witness ==
    \E p, q \in Calls :
        /\ pc[p] = "done" /\ ret[p] = 0
        /\ pc[q] = "done" /\ ret[q] # 0 /\ HasErrors(heap[ret[q]])

\* C2: the error returned for an instance with a failure has HasErrors() and
\* its Len() is the number of distinct failing field paths.
C2_LenCountsFailingPaths ==
    \A p \in Calls : (pc[p] = "done" /\ Failures(inst[p]) # {}) =>
        /\ ret[p] # 0
        /\ HasErrors(heap[ret[p]])
        /\ ErrorsLen(heap[ret[p]]) =
              Cardinality({ f.NameNamespace : f \in Failures(inst[p]) })

\* a returned aggregate with two failures of one path, and one with two paths
C2_Witness ==
    \E p, q \in Calls :
        /\ pc[p] = "done" /\ pc[q] = "done" /\ ret[p] # 0 /\ ret[q] # 0
        /\ Cardinality(Failures(inst[p])) = 2 /\ ErrorsLen(heap[ret[p]]) = 1
        /\ Cardinality(Failures(inst[q])) = 2 /\ ErrorsLen(heap[ret[q]]) = 2

ReasonSet(ve, k) == { ve.errors.m[k][i] : i \in DOMAIN ve.errors.m[k] }

\* same keys and, for each key, the same set of reasons
FieldEqual(a, b) ==
    /\ a.nil = b.nil
    /\ Keys(a.val.errors) = Keys(b.val.errors)
    /\ \A k \in Keys(a.val.errors) : ReasonSet(a.val, k) = ReasonSet(b.val, k)

\* C5: two finished calls on the same instance returned field-equal errors.
C5_SameInstanceSameAggregate ==
    \A p, q \in Calls :
        (pc[p] = "done" /\ pc[q] = "done" /\ inst[p] = inst[q]) =>
            FieldEqual(Returned(p), Returned(q))

InitRegistry ==
    [required |-> "builtin", phone |-> "Phone", timezone |-> "Timezone",
     coordinates |-> "Coordinates"]

\* what call p returns when it runs alone and its loop visits verrs in the order
\* its own loop did
Alone(p) ==
    IF validateStruct(inst[p]).nil
    THEN [nil |-> TRUE, val |-> ZeroValidationErrors]
    ELSE [nil |-> FALSE, val |-> NewValidationErrors(validateStruct(inst[p]), iter[p])]

\* C6: the registry is written by init() alone, once and before any call; no
\* two calls share an aggregate; the aggregate a call is building holds what its
\* own loop merged so far; and a finished call returned what it returns alone.
C6_CallsShareNothing ==
    /\ [](/\ initDone => registry = InitRegistry
          /\ \A p \in Calls : pc[p] # "idle" => initDone
          /\ \A p, q \in Calls : (p # q /\ ret[p] # 0 /\ ret[q] # 0) => ret[p] # ret[q]
          /\ \A p \in Calls : pc[p] = "range" =>
                heap[VerrAddr(p)] = NewValidationErrors(errs[p], iter[p])
          /\ \A p \in Calls : pc[p] = "done" => Returned(p) = Alone(p))
    /\ [][ /\ initDone => registry' = registry
           /\ registry' # registry => (~initDone /\ initDone') ]_vars

\* two calls were inside their loops at once and both have returned aggregates
C6_Witness ==
    \E p, q \in Calls :
        /\ p # q
        /\ pc[p] = "done" /\ pc[q] = "range"
        /\ Len(iter[p]) = 2 /\ Len(iter[q]) = 1 /\ todo[q] # {}
        /\ ret[p] # 0

----------------------------------------------------------------------------
(* Phone *)

Digits == {"0", "1", "2", "3", "4", "5", "6", "7", "8", "9"}

\* one pattern element: a character class, taken once or, if opt, at most once
One(cs) == [c |-> cs, opt |-> FALSE]
Opt(cs) == [c |-> cs, opt |-> TRUE]

RECURSIVE MatchFrom(_, _, _, _)
\* ^pat$ on s, from character i of s and element j of pat
MatchFrom(s, i, pat, j) ==
    IF j > Len(pat) THEN i > Len(s)
    ELSE \/ /\ i <= Len(s)
            /\ s[i] \in pat[j].c
            /\ MatchFrom(s, i + 1, pat, j + 1)
         \/ /\ pat[j].opt
            /\ MatchFrom(s, i, pat, j + 1)

MatchString(pat, s) == MatchFrom(s, 1, pat, 1)

\* ^\(?([0-9]{3})\)?\ [-.●]?([0-9]{3})[-.●]?([0-9]{4})$
validPhoneRegex ==
    << Opt({"("}), One(Digits), One(Digits), One(Digits), Opt({")"}),
       One({" "}), Opt({"-", ".", "●"}),
       One(Digits), One(Digits), One(Digits),
       Opt({"-", ".", "●"}),
       One(Digits), One(Digits), One(Digits), One(Digits) >>

\* func Phone: validPhoneRegex.MatchString(field.String())
Phone(s) == MatchString(validPhoneRegex, s)

\* the strings handed to Phone: ( area ) sep exchange sep line tail, each part
\* present, absent or malformed
PhoneParts ==
    << {<<>>, <<"(">>},
       {<<"5", "5", "5">>, <<"5", "5">>},
       {<<>>, <<")">>},
       {<<>>, <<" ">>, <<"-">>, <<".">>, <<"●">>, <<" ", "-">>, <<" ", " ">>, <<"a">>},
       {<<"1", "2", "3">>, <<"1", "2">>},
       {<<>>, <<" ">>, <<"-">>, <<".">>, <<"●">>},
       {<<"4", "5", "6", "7">>, <<"4", "5", "6">>},
       {<<>>, <<"x">>} >>

PhoneInputs ==
    { a \o b \o c \o d \o f \o g \o h \o t :
        a \in PhoneParts[1], b \in PhoneParts[2], c \in PhoneParts[3],
        d \in PhoneParts[4], f \in PhoneParts[5], g \in PhoneParts[6],
        h \in PhoneParts[7], t \in PhoneParts[8] }

\* a caller about to hand one of the strings to Phone
PhoneInit ==
    /\ field \in PhoneInputs
    /\ matched = [done |-> FALSE, ok |-> FALSE]
    /\ e = ZeroValidationErrors /\ op = [name |-> "var"] /\ out = TRUE
    /\ panicked = FALSE
    /\ StructIdle

PhoneCall ==
    /\ ~matched.done
    /\ matched' = [done |-> TRUE, ok |-> Phone(field)]
    /\ UNCHANGED <<field, aggVars, structVars>>

PhoneNext == PhoneCall

SpecPhone == PhoneInit /\ [][PhoneNext]_vars

\* the pattern as described: a 3-digit area code in optional parentheses, an
\* optional separator, 3 digits, an optional separator, 4 digits; a separator
\* is a space, a hyphen, a period or the bullet
Separators == {" ", "-", ".", "●"}
DescribedPhone ==
    << Opt({"("}), One(Digits), One(Digits), One(Digits), Opt({")"}),
       Opt(Separators),
       One(Digits), One(Digits), One(Digits),
       Opt(Separators),
       One(Digits), One(Digits), One(Digits), One(Digits) >>

\* C7: Phone accepts a string exactly when it has the described form.
C7_PhoneMatchesDescription ==
    matched.done => (matched.ok <=> MatchString(DescribedPhone, field))

====
